---- MODULE Spec2Model ----
(***************************************************************************)
(* A model of src/main.py: the LINE webhook that OCRs a receipt image,     *)
(* resolves its header (store name, purchase date), builds the receipt     *)
(* identity, upserts the header page in Notion and creates one Notion row  *)
(* per parsed line item.                                                   *)
(*                                                                         *)
(* Representation.  A Python str is a sequence of characters; a character  *)
(* is a TLA+ string.  ASCII characters are themselves; every other        *)
(* character is one element named after its Unicode name: "K_RO" is        *)
(* KATAKANA LETTER RO, "H_NI" is HIRAGANA LETTER NI, "K_~" the prolonged   *)
(* sound mark, "U+85AC" the ideograph with that code point, "LF" the line  *)
(* feed, "IDSP" the full-width space.  Lengths are therefore those of the  *)
(* Python strings.  None is the sequence None.  A float confidence is its  *)
(* value in hundredths (1.0 is 100).  A category is named in English:      *)
(* "Food" is the first entry of ALLOWED_CATEGORIES, "Other" the last.      *)
(***************************************************************************)
EXTENDS Integers, Sequences, FiniteSets, Bags, TLC

VARIABLES
    call,            \* pure-function harness: the last calls made and their results
    pc,              \* position of main / handle_image for the current delivery
    today,           \* datetime.now() as a date: index into Calendar
    event,           \* the webhook delivery being handled
    ocr_text, logo_brand, store_name, purchase_date,
    receipt_id, receipt_page_id,
    items, idx, created, failed, low_conf_count,
    notion_receipts, \* the receipts database: the set of header pages
    notion_items,    \* the items database: the bag of item rows
    response,        \* what main returned for the delivery being handled
    delivered,       \* the number of deliveries so far
    trace            \* observations of the current delivery (oracle calls, attempts)

vars == <<call, pc, today, event, ocr_text, logo_brand, store_name, purchase_date,
          receipt_id, receipt_page_id, items, idx, created, failed, low_conf_count,
          notion_receipts, notion_items, response, delivered, trace>>

-----------------------------------------------------------------------------
(* Python str primitives *)

None == <<"<None>">>

Min(a, b) == IF a <= b THEN a ELSE b

Max(a, b) == IF a >= b THEN a ELSE b

\* x or '' for an optional str
OrEmpty(x) == IF x = None THEN <<>> ELSE x

\* Python truthiness of an optional str
Truthy(x) == x # None /\ x # <<>>

\* str.isspace for one character (also what \s matches)
IsSpace(c) == c \in {" ", "LF", "IDSP", "TAB"}

\* str.strip()
Strip(s) ==
    LET keep == {i \in 1..Len(s) : ~IsSpace(s[i])}
    IN  IF keep = {} THEN <<>>
        ELSE SubSeq(s, CHOOSE i \in keep : \A j \in keep : i <= j,
                       CHOOSE i \in keep : \A j \in keep : i >= j)

\* sub in s
Contains(sub, s) ==
    \E i \in 0..(Len(s) - Len(sub)) : SubSeq(s, i + 1, i + Len(sub)) = sub

\* s.startswith(p)
StartsWith(s, p) == Len(p) <= Len(s) /\ SubSeq(s, 1, Len(p)) = p

\* s[:n]
Take(s, n) == SubSeq(s, 1, Min(n, Len(s)))

\* s.replace(tok, rep) for a non-empty tok: leftmost, non-overlapping
RECURSIVE Replace(_, _, _)
Replace(s, tok, rep) ==
    IF Len(s) < Len(tok) THEN s
    ELSE IF SubSeq(s, 1, Len(tok)) = tok
         THEN rep \o Replace(SubSeq(s, Len(tok) + 1, Len(s)), tok, rep)
         ELSE <<s[1]>> \o Replace(SubSeq(s, 2, Len(s)), tok, rep)

\* re.sub(r"\s+", " ", s)
RECURSIVE CollapseSpaces(_)
CollapseSpaces(s) ==
    IF s = <<>> THEN <<>>
    ELSE IF IsSpace(s[1])
         THEN IF Len(s) >= 2 /\ IsSpace(s[2])
              THEN CollapseSpaces(SubSeq(s, 2, Len(s)))
              ELSE <<" ">> \o CollapseSpaces(SubSeq(s, 2, Len(s)))
         ELSE <<s[1]>> \o CollapseSpaces(SubSeq(s, 2, Len(s)))

\* a string of n copies of the character c
Rep(c, n) == [i \in 1..n |-> c]

-----------------------------------------------------------------------------
(* normalize_store_name *)

\* the corporate-entity tokens removed, in the order of the source list
CorporateTokens ==
    << <<"U+682A", "U+5F0F", "U+4F1A", "U+793E">>,
       <<"U+5408", "U+540C", "U+4F1A", "U+793E">>,
       <<"U+6709", "U+9650", "U+4F1A", "U+793E">>,
       <<"(", "U+682A", ")">>,
       <<"(U+682A)">> >>

StoreNameMax == 50

RECURSIVE StripTokens(_, _)
StripTokens(name, k) ==
    IF k > Len(CorporateTokens) THEN name
    ELSE StripTokens(Strip(Replace(name, CorporateTokens[k], <<>>)), k + 1)

normalize_store_name(raw) ==
    IF ~Truthy(raw) THEN <<>>
    ELSE LET name == StripTokens(Strip(raw), 1)
             spaced == Strip(CollapseSpaces(Replace(name, <<"IDSP">>, <<" ">>)))
         IN  Take(spaced, StoreNameMax)

-----------------------------------------------------------------------------
(* build_receipt_id *)

TextDigestMax == 5000

Sep2 == <<":", ":">>

\* a hashed string that leaves the message id out
ReceiptIdBaseNoMessage(pd, sn, et, mid) ==
    pd \o Sep2 \o OrEmpty(sn) \o Sep2 \o Take(OrEmpty(et), TextDigestMax)

\* the string that is hashed (pd, sn, et, mid: purchase_date, store_name,
\* extracted_text, line_message_id)
ReceiptIdBase(pd, sn, et, mid) ==
    pd \o Sep2 \o OrEmpty(sn) \o Sep2 \o OrEmpty(mid) \o Sep2
       \o Take(OrEmpty(et), TextDigestMax)

\* hashlib.sha1(base).hexdigest()[:12], taken collision-free: the twelve hex
\* characters are represented by the string they are the digest of, so two
\* digests are equal exactly when the hashed strings are.
Sha1Hex12(base) == base

\* f"{purchase_date}_{store_name.strip()}_{digest}": the digest has a fixed
\* length, so two identities are equal exactly when their texts before the
\* digest and their digests are.
build_receipt_id(pd, sn, et, mid) ==
    [prefix |-> pd \o <<"_">> \o Strip(OrEmpty(sn)) \o <<"_">>,
     digest |-> Sha1Hex12(ReceiptIdBase(pd, sn, et, mid))]

-----------------------------------------------------------------------------
(* Categories and rule tables *)

ALLOWED_CATEGORIES ==
    <<"Food", "Transport", "DailyGoods", "Medical", "Dog", "Hobby", "Education",
      "Subscription", "Social", "Other">>

AllowedSet == {ALLOWED_CATEGORIES[i] : i \in 1..Len(ALLOWED_CATEGORIES)}

\* in insertion order, which is the order rule_classify scans it in
MERCHANT_MAP ==
    << [key |-> <<"K_SE", "K_BU", "K_N", "-", "K_I", "K_RE", "K_BU", "K_N">>, cat |-> "Food"],
       [key |-> <<"K_HU", "K_SMALL_A", "K_MI", "K_RI", "K_~", "K_MA", "K_~", "K_TO">>, cat |-> "Food"],
       [key |-> <<"K_RO", "K_~", "K_SO", "K_N">>, cat |-> "Food"],
       [key |-> <<"K_SU", "K_~", "K_PA", "K_~", "U+7389", "U+51FA">>, cat |-> "Food"],
       [key |-> <<"U+962A", "U+6025", "U+96FB", "U+9244">>, cat |-> "Transport"],
       [key |-> <<"J", "R">>, cat |-> "Transport"],
       [key |-> <<"K_SU", "K_GI", "U+85AC", "U+5C40">>, cat |-> "DailyGoods"],
       [key |-> <<"K_KO", "K_KO", "K_KA", "K_RA", "K_HU", "K_SMALL_A", "K_I", "K_N">>, cat |-> "DailyGoods"],
       [key |-> <<"K_KA", "K_I", "K_N", "K_ZU">>, cat |-> "DailyGoods"],
       [key |-> <<"K_SU", "K_TA", "K_~", "K_BA", "K_SMALL_TU", "K_KU", "K_SU">>, cat |-> "Food"],
       [key |-> <<"K_DO", "K_TO", "K_~", "K_RU">>, cat |-> "Food"],
       [key |-> <<"K_KO", "K_~", "K_NA", "K_N">>, cat |-> "Dog"],
       [key |-> <<"K_PE", "K_SMALL_TU", "K_TO">>, cat |-> "Dog"] >>

\* each group's words are tried with any(): their order does not matter
KEYWORD_RULES ==
    << [words |-> {<<"U+5207", "U+7B26">>,
                    <<"U+4E57", "U+8ECA">>,
                    <<"U+904B", "U+8CC3">>,
                    <<"I", "C", "K_TI", "K_SMALL_YA", "K_~", "K_ZI">>,
                    <<"U+6539", "U+672D">>},
        cat |-> "Transport"],
       [words |-> {<<"K_SI", "K_SMALL_YA", "K_N", "K_PU", "K_~">>,
                    <<"U+6D17", "U+5264">>,
                    <<"K_TO", "K_I", "K_RE", "K_SMALL_TU", "K_TO", "K_PE", "K_~", "K_PA", "K_~">>,
                    <<"U+65E5", "U+7528", "U+54C1">>,
                    <<"K_TE", "K_SMALL_I", "K_SMALL_TU", "K_SI", "K_SMALL_YU">>,
                    <<"K_KI", "K_SMALL_TU", "K_TI", "K_N", "K_PE", "K_~", "K_PA", "K_~">>,
                    <<"K_SU", "K_PO", "K_N", "K_ZI">>,
                    <<"U+6B6F", "K_BU", "K_RA", "K_SI">>,
                    <<"U+6B6F", "U+78E8", "H_KI">>,
                    <<"K_BO", "K_DE", "K_SMALL_I", "K_SO", "K_~", "K_PU">>,
                    <<"K_GO", "K_MI", "U+888B">>,
                    <<"U+6D17", "U+6FEF">>,
                    <<"U+67D4", "U+8EDF", "U+5264">>,
                    <<"K_MA", "K_SU", "K_KU">>,
                    <<"U+9664", "U+83CC">>},
        cat |-> "DailyGoods"],
       [words |-> {<<"U+75C5", "U+9662">>,
                    <<"K_KU", "K_RI", "K_NI", "K_SMALL_TU", "K_KU">>,
                    <<"U+85AC">>,
                    <<"U+51E6", "U+65B9">>},
        cat |-> "Medical"],
       [words |-> {<<"U+72AC">>,
                    <<"K_DO", "K_SMALL_TU", "K_GU">>,
                    <<"K_PE", "K_SMALL_TU", "K_TO">>,
                    <<"K_HU", "K_~", "K_DO">>,
                    <<"K_TO", "K_RI", "K_MI", "K_N", "K_GU">>,
                    <<"H_O", "H_YA", "H_TU">>},
        cat |-> "Dog"],
       [words |-> {<<"U+5F01", "U+5F53">>,
                    <<"H_O", "H_NI", "H_GI", "H_RI">>,
                    <<"K_SA", "K_N", "K_DO", "K_I", "K_SMALL_TU", "K_TI">>,
                    <<"K_PA", "K_N">>,
                    <<"U+725B", "U+4E73">>,
                    <<"U+5375">>,
                    <<"U+8089">>,
                    <<"U+91CE", "U+83DC">>,
                    <<"U+7C73">>,
                    <<"U+5BFF", "U+53F8">>,
                    <<"U+523A", "U+8EAB">>,
                    <<"U+60E3", "U+83DC">>,
                    <<"K_BI", "K_~", "K_RU">>,
                    <<"U+9152">>,
                    <<"U+98F2", "U+6599">>,
                    <<"H_O", "U+8336">>,
                    <<"K_KO", "K_~", "K_HI", "K_~">>,
                    <<"U+7D05", "U+8336">>,
                    <<"K_KA", "K_SMALL_TU", "K_PU", "U+9EBA">>},
        cat |-> "Food"],
       [words |-> {<<"N", "e", "t", "f", "l", "i", "x">>,
                    <<"S", "p", "o", "t", "i", "f", "y">>,
                    <<"A", "d", "o", "b", "e">>,
                    <<"K_SA", "K_BU", "K_SU", "K_KU">>,
                    <<"U+5B9A", "U+984D">>},
        cat |-> "Subscription"] >>

\* the alternatives of the four store-name regular expressions of rule_classify
DrugstoreWords ==
    {<<"K_DO", "K_RA", "K_SMALL_TU", "K_GU">>,
     <<"U+85AC", "U+5C40">>,
     <<"K_KO", "K_KO", "K_KA", "K_RA">>,
     <<"K_MA", "K_TU", "K_KI", "K_YO">>,
     <<"K_SU", "K_GI", "U+85AC", "U+5C40">>,
     <<"K_U", "K_SMALL_E", "K_RU", "K_SI", "K_A">>}

SupermarketWords ==
    {<<"K_SU", "K_~", "K_PA", "K_~">>,
     <<"K_MA", "K_~", "K_TO">>,
     <<"K_MA", "K_~", "K_KE", "K_SMALL_TU", "K_TO">>,
     <<"U+767E", "U+8CA8", "U+5E97">>,
     <<"U+98DF", "U+54C1", "U+9928">>,
     <<"U+751F", "U+9BAE">>,
     <<"K_HU", "K_RE", "K_SMALL_TU", "K_SI", "K_SMALL_YU">>}

TransitWords ==
    {<<"U+96FB", "U+9244">>,
     <<"U+99C5">>,
     <<"J", "R">>,
     <<"K_BA", "K_SU">>,
     <<"U+5730", "U+4E0B", "U+9244">>,
     <<"K_ME", "K_TO", "K_RO">>,
     <<"I", "C">>,
     <<"U+5207", "U+7B26">>}

CafeWords ==
    {<<"K_KA", "K_HU", "K_SMALL_E">>,
     <<"K_KO", "K_~", "K_HI", "K_~">>,
     <<"K_BE", "K_~", "K_KA", "K_RI", "K_~">>,
     <<"K_PA", "K_N">>,
     <<"K_SU", "K_TA", "K_~", "K_BA", "K_SMALL_TU", "K_KU", "K_SU">>,
     <<"K_DO", "K_TO", "K_~", "K_RU">>}

UpperAlpha ==
    <<"A", "B", "C", "D", "E", "F", "G", "H", "I", "J", "K", "L", "M",
      "N", "O", "P", "Q", "R", "S", "T", "U", "V", "W", "X", "Y", "Z">>

LowerAlpha ==
    <<"a", "b", "c", "d", "e", "f", "g", "h", "i", "j", "k", "l", "m",
      "n", "o", "p", "q", "r", "s", "t", "u", "v", "w", "x", "y", "z">>

\* str.lower()
Lower(s) ==
    [i \in 1..Len(s) |->
        IF \E k \in 1..Len(UpperAlpha) : UpperAlpha[k] = s[i]
        THEN LowerAlpha[CHOOSE k \in 1..Len(UpperAlpha) : UpperAlpha[k] = s[i]]
        ELSE s[i]]

\* re.search of an alternation of literals
ContainsAny(words, s) == \E w \in words : Contains(w, s)

-----------------------------------------------------------------------------
(* heuristic_extract_store_name *)

LatinBrands ==
    << <<"F", "a", "m", "i", "l", "y", "M", "a", "r", "t">>,
       <<"L", "A", "W", "S", "O", "N">>,
       <<"S", "e", "v", "e", "n">>,
       <<"S", "t", "a", "r", "b", "u", "c", "k", "s">>,
       <<"D", "O", "U", "T", "O", "R">> >>

ban_words ==
    {<<"U+9818", "U+53CE">>,
     <<"U+9818", "U+53CE", "U+66F8">>,
     <<"K_RE", "K_SI", "K_~", "K_TO">>,
     <<"U+660E", "U+7D30">>,
     <<"U+63A7", "H_E">>,
     <<"H_GO", "U+5229", "U+7528">>,
     <<"U+5408", "U+8A08">>,
     <<"U+5C0F", "U+8A08">>,
     <<"U+7A0E", "U+8FBC">>,
     <<"U+7A0E">>,
     <<"N", "o">>,
     <<"T", "E", "L">>,
     <<"U+96FB", "U+8A71">>,
     <<"U+65E5", "U+6642">>,
     <<"U+65E5", "U+4ED8">>,
     <<"U+6642", "U+9593">>,
     <<"U+58F2", "U+4E0A">>,
     <<"K_RE", "K_ZI">>,
     <<"H_O", "U+8CB7", "U+4E0A">>}

BranchWords ==
    {<<"U+5E97">>,
     <<"U+672C", "U+5E97">>,
     <<"U+652F", "U+5E97">>}

BrandWords ==
    {<<"K_SU", "K_~", "K_PA", "K_~">>,
     <<"K_DO", "K_RA", "K_SMALL_TU", "K_GU">>,
     <<"K_MA", "K_~", "K_TO">>,
     <<"K_KO", "K_~", "K_HI", "K_~">>,
     <<"K_KA", "K_HU", "K_SMALL_E">>,
     <<"U+96FB", "U+9244">>,
     <<"U+767E", "U+8CA8", "U+5E97">>,
     <<"K_SI", "K_SMALL_YO", "K_SMALL_TU", "K_PI", "K_N", "K_GU">>,
     <<"K_MO", "K_~", "K_RU">>}

HeadLines == 20

\* str.splitlines(), the line feed being the only line boundary of the alphabet
RECURSIVE SplitLines(_)
SplitLines(s) ==
    IF s = <<>> THEN <<>>
    ELSE LET nls == {i \in 1..Len(s) : s[i] = "LF"}
         IN  IF nls = {} THEN <<s>>
             ELSE LET nl == CHOOSE i \in nls : \A j \in nls : i <= j
                  IN  <<SubSeq(s, 1, nl - 1)>> \o SplitLines(SubSeq(s, nl + 1, Len(s)))

\* [f(x) for x in xs if p(x)] for the two comprehensions of the function
LinesWith(lines, key) == SelectSeq(lines, LAMBDA ln : Contains(key, ln))

StrippedNonBlank(lines) ==
    LET kept == SelectSeq(lines, LAMBDA ln : Strip(ln) # <<>>)
    IN  [i \in 1..Len(kept) |-> Strip(kept[i])]

\* max(lines, key=len): the first line of the greatest length
Longest(lines) ==
    lines[CHOOSE i \in 1..Len(lines) :
            /\ \A j \in 1..Len(lines) : Len(lines[j]) <= Len(lines[i])
            /\ \A j \in 1..(i - 1) : Len(lines[j]) < Len(lines[i])]

\* the characters of the alphabet that [^\w...\-\s] removes: punctuation and
\* symbols; every other character is a letter, a digit, "-", the middle dot or
\* white space
Symbols ==
    {"/", ".", ":", "*", "(", ")", "#", ",", "{", "}", "[", "]", "=", "+",
     "(U+682A)", "YEN", "FW(", "FW)", "FW|", "DQ", "BS"}

\* len(re.sub(r"[^\w...]", "", ln))
WordLen(ln) == Len(SelectSeq(ln, LAMBDA c : c \notin Symbols))

\* step 1: the first key of MERCHANT_MAP found in the text decides
RECURSIVE MerchantLine(_, _)
MerchantLine(text, k) ==
    IF k > Len(MERCHANT_MAP) THEN <<>>
    ELSE IF Contains(MERCHANT_MAP[k].key, text)
         THEN LET candidate_lines == LinesWith(SplitLines(text), MERCHANT_MAP[k].key)
              IN  IF candidate_lines # <<>>
                  THEN normalize_store_name(Longest(candidate_lines))
                  ELSE MerchantLine(text, k + 1)
         ELSE MerchantLine(text, k + 1)

\* step 2
RECURSIVE LatinBrand(_, _)
LatinBrand(lower, k) ==
    IF k > Len(LatinBrands) THEN <<>>
    ELSE IF Contains(Lower(LatinBrands[k]), lower)
         THEN normalize_store_name(LatinBrands[k])
         ELSE LatinBrand(lower, k + 1)

\* step 3: the loop over head from line i on, with the loop's two variables;
\* the result is [found, name]
RECURSIVE HeadScan(_, _, _, _)
HeadScan(head, i, brand_line, branch_line) ==
    IF i > Len(head) THEN [found |-> FALSE, name |-> <<>>]
    ELSE LET ln == head[i]
         IN  IF ContainsAny(ban_words, ln) \/ WordLen(ln) < 2
             THEN HeadScan(head, i + 1, brand_line, branch_line)
             ELSE LET branch == IF ContainsAny(BranchWords, ln) THEN ln ELSE branch_line
                      brand == IF ContainsAny(BrandWords, ln) THEN ln ELSE brand_line
                  IN  IF branch # <<>> /\ brand # <<>>
                      THEN [found |-> TRUE,
                            name |-> normalize_store_name(
                                        IF Len(brand) >= Len(branch) THEN brand
                                        ELSE brand \o <<" ">> \o branch)]
                      ELSE HeadScan(head, i + 1, brand, branch)

heuristic_extract_store_name(text_in) ==
    IF ~Truthy(text_in) THEN <<>>
    ELSE LET text == Strip(text_in)
             best == MerchantLine(text, 1)
             latin == LatinBrand(Lower(text), 1)
             head == Take(StrippedNonBlank(SplitLines(text)), HeadLines)
             scan == HeadScan(head, 1, <<>>, <<>>)
         IN  IF best # <<>> THEN best
             ELSE IF latin # <<>> THEN latin
             ELSE IF scan.found THEN scan.name
             ELSE normalize_store_name(IF head # <<>> THEN head[1] ELSE <<>>)

-----------------------------------------------------------------------------
(* Regular expressions of the date extractor *)

(* A pattern is a sequence of items.  Lit(alts, n) matches one of the         *)
(* literals alts, all of length n; Cls(set, lo, hi) matches between lo and hi *)
(* characters of set, greedily, giving characters back when what follows      *)
(* does not match, as the re module does.                                     *)

Lit(alts, n) == [kind |-> "lit", alts |-> alts, len |-> n, set |-> {}, lo |-> 0, hi |-> 0]

Cls(set, lo, hi) == [kind |-> "cls", alts |-> {}, len |-> 0, set |-> set, lo |-> lo, hi |-> hi]

AsciiDigits == <<"0", "1", "2", "3", "4", "5", "6", "7", "8", "9">>

\* the full-width digits U+FF10 to U+FF19
FullWidthDigits == <<"FW0", "FW1", "FW2", "FW3", "FW4", "FW5", "FW6", "FW7", "FW8", "FW9">>

\* \d of a str pattern: the decimal digits of the alphabet of the model
Digits == {AsciiDigits[i] : i \in 1..10} \cup {FullWidthDigits[i] : i \in 1..10}

Spaces == {" ", "LF", "IDSP", "TAB"}

\* the number of characters of set that start at pos, at most hi (no limit
\* when hi is negative)
RECURSIVE RunLen(_, _, _, _)
RunLen(text, pos, set, hi) ==
    IF hi = 0 \/ pos > Len(text) \/ text[pos] \notin set THEN 0
    ELSE 1 + RunLen(text, pos + 1, set, hi - 1)

NoMatch == [ok |-> FALSE, pos |-> 0, lens |-> <<>>]

\* the match of an item of length n followed by the match r of the rest
Then(n, r) == [ok |-> r.ok, pos |-> 0, lens |-> <<n>> \o r.lens]

\* pat[k..] matched at pos: [ok, lens], lens the lengths the items took.
\* A class item first takes all it can (ClsTry from the longest run down).
RECURSIVE MatchFrom(_, _, _, _)
RECURSIVE ClsTry(_, _, _, _, _)
RECURSIVE ClsPick(_, _, _, _, _, _)
MatchFrom(text, pos, pat, k) ==
    IF k > Len(pat) THEN [ok |-> TRUE, pos |-> 0, lens |-> <<>>]
    ELSE IF pat[k].kind = "lit"
    THEN IF pos + pat[k].len - 1 <= Len(text)
            /\ SubSeq(text, pos, pos + pat[k].len - 1) \in pat[k].alts
         THEN Then(pat[k].len, MatchFrom(text, pos + pat[k].len, pat, k + 1))
         ELSE NoMatch
    ELSE ClsTry(text, pos, pat, k, RunLen(text, pos, pat[k].set, pat[k].hi))

ClsTry(text, pos, pat, k, c) ==
    IF c < pat[k].lo THEN NoMatch
    ELSE ClsPick(text, pos, pat, k, c, MatchFrom(text, pos + c, pat, k + 1))

ClsPick(text, pos, pat, k, c, r) ==
    IF r.ok THEN Then(c, r) ELSE ClsTry(text, pos, pat, k, c - 1)

\* re.search(pat, text): the leftmost match, [ok, pos, lens]
RECURSIVE SearchFrom(_, _, _)
RECURSIVE SearchPick(_, _, _, _)
SearchFrom(pat, text, p) ==
    IF p > Len(text) + 1 THEN NoMatch
    ELSE SearchPick(pat, text, p, MatchFrom(text, p, pat, 1))

SearchPick(pat, text, p, r) ==
    IF r.ok THEN [ok |-> TRUE, pos |-> p, lens |-> r.lens]
    ELSE SearchFrom(pat, text, p + 1)

Search(pat, text) == SearchFrom(pat, text, 1)

RECURSIVE SumTo(_, _)
SumTo(lens, k) == IF k = 0 THEN 0 ELSE lens[k] + SumTo(lens, k - 1)

\* the text that items i..j of the pattern matched
Group(text, m, i, j) ==
    SubSeq(text, m.pos + SumTo(m.lens, i - 1), m.pos + SumTo(m.lens, j) - 1)

\* int(c) of a decimal digit
DigitVal(c) == CHOOSE n \in 0..9 : AsciiDigits[n + 1] = c \/ FullWidthDigits[n + 1] = c

\* int(s) for a string of digits
RECURSIVE ToInt(_)
ToInt(s) ==
    IF s = <<>> THEN 0
    ELSE 10 * ToInt(SubSeq(s, 1, Len(s) - 1)) + DigitVal(s[Len(s)])

Nen == "U+5E74"

Gatsu == "U+6708"

Nichi == "U+65E5"

DateSeps == {"-", "/", "."}

Reiwa == <<"U+4EE4", "U+548C">>

Heisei == <<"U+5E73", "U+6210">>

Showa == <<"U+662D", "U+548C">>

EraLetters == {"R", "r", "H", "h", "S", "s"}

\* \s*
Ws == Cls(Spaces, 0, -1)

\* \d{1,2}
D12 == Cls(Digits, 1, 2)

\* year glyph, month glyph, day glyph with the white space the patterns allow
GlyphTail ==
    <<Ws, Lit({<<Nen>>}, 1), Ws, D12, Ws, Lit({<<Gatsu>>}, 1), Ws, D12, Ws,
      Lit({<<Nichi>>}, 1)>>

\* (20\d{2}|19\d{2})[\-/\.](\d{1,2})[\-/\.](\d{1,2})
Pattern1 ==
    <<Lit({<<"2", "0">>, <<"1", "9">>}, 2), Cls(Digits, 2, 2), Cls(DateSeps, 1, 1),
      D12, Cls(DateSeps, 1, 1), D12>>

\* (20\d{2}|19\d{2})\s*Y\s*(\d{1,2})\s*M\s*(\d{1,2})\s*D
Pattern2 ==
    <<Lit({<<"2", "0">>, <<"1", "9">>}, 2), Cls(Digits, 2, 2)>> \o GlyphTail

\* (Reiwa|Heisei|Showa)\s*(\d{1,2})\s*Y\s*(\d{1,2})\s*M\s*(\d{1,2})\s*D
Pattern3 == <<Lit({Reiwa, Heisei, Showa}, 2), Ws, D12>> \o GlyphTail

\* ([RrHhSs])(\d{1,2})[\./\-](\d{1,2})[\./\-](\d{1,2})
Pattern4 ==
    <<Cls(EraLetters, 1, 1), D12, Cls(DateSeps, 1, 1), D12, Cls(DateSeps, 1, 1), D12>>

\* ([RrHhSs])\s*(\d{1,2})\s*Y\s*(\d{1,2})\s*M\s*(\d{1,2})\s*D
Pattern5 == <<Cls(EraLetters, 1, 1), Ws, D12>> \o GlyphTail

-----------------------------------------------------------------------------
(* _to_iso_date, _convert_japanese_era, extract_purchase_date_local *)

IsLeap(y) == (y % 4 = 0 /\ y % 100 # 0) \/ y % 400 = 0

DaysInMonth(y, m) ==
    IF m = 2 THEN (IF IsLeap(y) THEN 29 ELSE 28)
    ELSE IF m \in {4, 6, 9, 11} THEN 30 ELSE 31

\* whether datetime(y, m, d) is a date (MINYEAR = 1, MAXYEAR = 9999)
ValidDate(y, m, d) ==
    y \in 1..9999 /\ m \in 1..12 /\ d >= 1 /\ d <= DaysInMonth(y, m)

DigitChar(n) == AsciiDigits[n + 1]

\* n as w digits, zero-padded
RECURSIVE Pad(_, _)
Pad(n, w) == IF w = 0 THEN <<>> ELSE Pad(n \div 10, w - 1) \o <<DigitChar(n % 10)>>

\* strftime("%Y-%m-%d")
IsoDate(y, m, d) == Pad(y, 4) \o <<"-">> \o Pad(m, 2) \o <<"-">> \o Pad(d, 2)

\* a _to_iso_date that formats without building the datetime
_to_iso_date_unvalidated(y, m, d) == IsoDate(y, m, d)

\* lines 149-153
_to_iso_date(y, m, d) == IF ValidDate(y, m, d) THEN IsoDate(y, m, d) ELSE <<>>

_convert_japanese_era(era_in, y) ==
    LET era == Strip(era_in)
    IN  IF era \in {Reiwa, <<"R">>, <<"r">>} THEN 2018 + y
        ELSE IF era \in {Heisei, <<"H">>, <<"h">>} THEN 1988 + y
        ELSE IF era \in {Showa, <<"S">>, <<"s">>} THEN 1925 + y
        ELSE 0

\* era_map.get(era_letter, "")
EraMap(letter) ==
    IF letter \in {<<"R">>, <<"r">>} THEN Reiwa
    ELSE IF letter \in {<<"H">>, <<"h">>} THEN Heisei
    ELSE IF letter \in {<<"S">>, <<"s">>} THEN Showa
    ELSE <<>>

\* tiers 1 and 2: year, month, day are items (1-2), im, id of the match m
GregorianDate(text, m, im, id) ==
    IF m.ok THEN _to_iso_date(ToInt(Group(text, m, 1, 2)),
                              ToInt(Group(text, m, im, im)),
                              ToInt(Group(text, m, id, id)))
    ELSE <<>>

GregorianTier(text, pat, im, id) == GregorianDate(text, Search(pat, text), im, id)

\* tiers 3 to 5: era is item 1; era year, month, day are items iy, im, id
EraDate(text, m, byLetter, iy, im, id) ==
    IF m.ok
    THEN _to_iso_date(_convert_japanese_era(IF byLetter THEN EraMap(Group(text, m, 1, 1))
                                            ELSE Group(text, m, 1, 1),
                                            ToInt(Group(text, m, iy, iy))),
                      ToInt(Group(text, m, im, im)),
                      ToInt(Group(text, m, id, id)))
    ELSE <<>>

EraTier(text, pat, byLetter, iy, im, id) ==
    EraDate(text, Search(pat, text), byLetter, iy, im, id)

\* the five tiers in the order of the source
DateTier(text, k) ==
    CASE k = 1 -> GregorianTier(text, Pattern1, 4, 6)
      [] k = 2 -> GregorianTier(text, Pattern2, 6, 10)
      [] k = 3 -> EraTier(text, Pattern3, FALSE, 3, 7, 11)
      [] k = 4 -> EraTier(text, Pattern4, TRUE, 2, 4, 6)
      [] k = 5 -> EraTier(text, Pattern5, TRUE, 3, 7, 11)

DateTiers == 5

\* the first tier, from tier k on, that gives a date
RECURSIVE FirstDate(_, _)
RECURSIVE DatePick(_, _, _)
FirstDate(text, k) ==
    IF k > DateTiers THEN <<>> ELSE DatePick(text, k, DateTier(text, k))

DatePick(text, k, iso) == IF iso # <<>> THEN iso ELSE FirstDate(text, k + 1)

extract_purchase_date_local(text_in) ==
    IF ~Truthy(text_in) THEN <<>>
    ELSE LET text == Replace(Replace(Replace(text_in, <<Nen, " ">>, <<Nen>>),
                                     <<Gatsu, " ">>, <<Gatsu>>),
                             <<Nichi, " ">>, <<Nichi>>)
         IN  FirstDate(text, 1)

-----------------------------------------------------------------------------
(* The generative-text oracle *)

(* What one call of the oracle does.  http = "error" is every way            *)
(* requests.post / raise_for_status / r.json() raises (timeout, non-2xx,     *)
(* body that is no JSON).  Otherwise the text of the first candidate is      *)
(* described by how the two parse strategies see it:                         *)
(*   shape "json"    json.loads(text) succeeds and gives doc;                *)
(*   shape "span"    json.loads(text) fails, the regular expression          *)
(*                   \{[\s\S]*\} finds a span and the span decodes to doc    *)
(*                   (an object: the span starts with a brace);              *)
(*   shape "badspan" json.loads(text) fails, a span is found, the span does  *)
(*                   not decode;                                             *)
(*   shape "plain"   json.loads(text) fails and there is no span (this is    *)
(*                   also the empty text a response without parts gives).    *)
(* A doc is a decoded JSON value: t is its Python type and, for a dict, each *)
(* key the code reads is a field [k, v] with k the type of the value there   *)
(* ("absent" when the key is missing).                                       *)

Field(k, v) == [k |-> k, v |-> v]

Doc(t, category, confidence, sname, pdate) ==
    [t |-> t, category |-> category, confidence |-> confidence,
     store_name |-> sname, purchase_date |-> pdate]

NoCat == Field("absent", "")

NoConf == Field("absent", 0)

NoStr == Field("absent", <<>>)

\* a JSON value that is no object: null, a number, a string, a list
Scalar(t) == Doc(t, NoCat, NoConf, NoStr, NoStr)

\* json.loads(text): the decoded value, or None (t = "NoneType") on failure;
\* the JSON text null decodes to None too
JsonLoads(text) ==
    IF text.shape = "json" THEN text.doc ELSE Scalar("NoneType")

\* m = re.search(r"\{[\s\S]*\}", text); json.loads(m.group(0)) on a match
JsonLoadsSpan(text) ==
    IF text.shape = "span" THEN text.doc ELSE Scalar("NoneType")

\* lines 372-385 and 450-463: strict decode, then the span, then the fallback
ParseOracleText(text, fallback) ==
    LET data1 == JsonLoads(text)
        data2 == IF data1.t = "NoneType" THEN JsonLoadsSpan(text) ELSE data1
    IN  IF data2.t = "NoneType" THEN fallback ELSE data2

-----------------------------------------------------------------------------
(* gemini_extract_header *)

HeaderFallback ==
    Doc("dict", NoCat, NoConf, Field("str", <<>>), Field("str", <<>>))

\* Python truthiness of the value of a key (a number of the model is non-zero)
FieldTruthy(f) ==
    IF f.k = "str" THEN f.v # <<>> ELSE f.k \notin {"absent", "NoneType"}

HeaderRaised == [status |-> "raise", store_name |-> <<>>, purchase_date |-> NoStr]

\* o is what the oracle does on this call, now is datetime.now() as an ISO date;
\* the result is the dict returned: its store_name and its purchase_date value
gemini_extract_header(text, o, now) ==
    IF o.http = "error" THEN HeaderRaised
    ELSE LET data == ParseOracleText(o.text, HeaderFallback)
             local == extract_purchase_date_local(text)
             pdate == IF FieldTruthy(data.purchase_date) THEN data.purchase_date
                      ELSE Field("str", IF local # <<>> THEN local ELSE now)
             raw == IF data.store_name.k = "str" THEN data.store_name.v ELSE <<>>
             store == normalize_store_name(raw)
         IN  IF data.t # "dict" THEN HeaderRaised         \* data.get: AttributeError
             ELSE IF data.store_name.k \notin {"absent", "NoneType", "str"}
                  THEN HeaderRaised                       \* raw.strip: AttributeError
             ELSE [status |-> "return",
                   store_name |-> IF store # <<>> THEN store
                                  ELSE heuristic_extract_store_name(text),
                   purchase_date |-> pdate]

-----------------------------------------------------------------------------
(* gemini_extract_items_csv, parse_items_csv, price coercion *)

Letters == {UpperAlpha[i] : i \in 1..Len(UpperAlpha)} \cup {LowerAlpha[i] : i \in 1..Len(LowerAlpha)}

\* three backticks ("BT" is the backtick)
Fence == <<"BT", "BT", "BT">>

\* re.sub of a fence, the letters after it and one optional line feed by ""
RECURSIVE RemoveFenceMarkers(_)
RemoveFenceMarkers(s) ==
    IF Len(s) < 3 THEN s
    ELSE IF SubSeq(s, 1, 3) = Fence
         THEN LET n == RunLen(s, 4, Letters, -1)
                  nl == IF 4 + n <= Len(s) /\ s[4 + n] = "LF" THEN 1 ELSE 0
              IN  RemoveFenceMarkers(SubSeq(s, 4 + n + nl, Len(s)))
         ELSE <<s[1]>> \o RemoveFenceMarkers(SubSeq(s, 2, Len(s)))

\* both functions clean a non-empty text the same way
StripFences(s) == IF s = <<>> THEN s ELSE Replace(RemoveFenceMarkers(s), Fence, <<>>)

\* one csv row of a line without quote characters: its fields
RECURSIVE SplitComma(_)
SplitComma(ln) ==
    LET cs == {i \in 1..Len(ln) : ln[i] = ","}
    IN  IF cs = {} THEN <<ln>>
        ELSE LET c == CHOOSE i \in cs : \A j \in cs : i <= j
             IN  <<SubSeq(ln, 1, c - 1)>> \o SplitComma(SubSeq(ln, c + 1, Len(ln)))

\* "item" and "price" as the header row spells them
Shohin == <<"U+5546", "U+54C1">>

Kakaku == <<"U+4FA1", "U+683C">>

RECURSIVE ItemRows(_, _)
ItemRows(lines, i) ==
    IF i > Len(lines) THEN <<>>
    ELSE LET row == SplitComma(lines[i])
         IN  IF lines[i] = <<>> \/ Len(row) < 2 THEN ItemRows(lines, i + 1)
             ELSE IF Contains(Shohin, row[1]) /\ Contains(Kakaku, row[2])
                  THEN ItemRows(lines, i + 1)
             ELSE << <<Strip(row[1]), Strip(row[2])>> >> \o ItemRows(lines, i + 1)

parse_items_csv(csv_text) == ItemRows(SplitLines(StripFences(csv_text)), 1)

\* the text gemini_extract_items_csv returns for the candidate text given
gemini_extract_items_csv(text) == StripFences(Strip(text))

\* float(str(price_str).replace(yen, "").replace(",", "").strip()), None (-1)
\* when float() raises; the numbers of the alphabet are strings of digits
NoPrice == 0 - 1

PriceOf(price_str) ==
    LET t == Strip(Replace(Replace(price_str, <<"YEN">>, <<>>), <<",">>, <<>>))
    IN  IF t # <<>> /\ \A i \in 1..Len(t) : t[i] \in Digits THEN ToInt(t) ELSE NoPrice

-----------------------------------------------------------------------------
(* Classification *)

\* a classification: status "return" with the tuple returned, "None" for
\* rule_classify's no match, "raise" for an exception; oracle tells whether the
\* oracle was called to get it
Hit(cat, conf, source) ==
    [status |-> "return", cat |-> cat, conf |-> conf, source |-> source,
     oracle |-> source = "ai"]

NoHit == [status |-> "None", cat |-> "", conf |-> 0, source |-> "", oracle |-> FALSE]

Raised == [status |-> "raise", cat |-> "", conf |-> 0, source |-> "", oracle |-> TRUE]

\* the first entry of MERCHANT_MAP, in its order, that the store name matches
MerchantMatches(sn, k) ==
    StartsWith(Strip(sn), MERCHANT_MAP[k].key) \/ Contains(MERCHANT_MAP[k].key, sn)

RECURSIVE FirstMerchant(_, _)
FirstMerchant(sn, k) ==
    IF k > Len(MERCHANT_MAP) THEN 0
    ELSE IF MerchantMatches(sn, k) THEN k
    ELSE FirstMerchant(sn, k + 1)

RECURSIVE KeywordRule(_, _)
KeywordRule(text, k) ==
    IF k > Len(KEYWORD_RULES) THEN 0
    ELSE IF \E w \in KEYWORD_RULES[k].words : Contains(Lower(w), text) THEN k
    ELSE KeywordRule(text, k + 1)

rule_classify(sn, item_name) ==
    LET m == FirstMerchant(sn, 1)
        k == KeywordRule(Lower(sn \o <<" ">> \o item_name), 1)
    IN  IF sn # <<>> /\ m # 0 THEN Hit(MERCHANT_MAP[m].cat, 100, "rule")
        ELSE IF sn # <<>> /\ ContainsAny(DrugstoreWords, sn)
             THEN Hit("DailyGoods", 85, "rule")
        ELSE IF sn # <<>> /\ ContainsAny(SupermarketWords, sn)
             THEN Hit("Food", 85, "rule")
        ELSE IF sn # <<>> /\ ContainsAny(TransitWords, sn)
             THEN Hit("Transport", 90, "rule")
        ELSE IF sn # <<>> /\ ContainsAny(CafeWords, sn)
             THEN Hit("Food", 85, "rule")
        ELSE IF k # 0 THEN Hit(KEYWORD_RULES[k].cat, 90, "rule")
        ELSE NoHit

ClassifyFallback ==
    Doc("dict", Field("str", "Other"), Field("float", 50), NoStr, NoStr)

\* float(data.get("confidence", 0.5)), 0.5 when float() raises, clamped to [0, 1]
Confidence(f) ==
    LET conf == IF f.k \in {"float", "int", "numstr"} THEN f.v ELSE 50
    IN  Max(0, Min(100, conf))

\* an ai_classify that returns the oracle's label as it came
ai_classify_unchecked(sn, item_name, amount, o) ==
    IF o.http = "error" THEN Raised
    ELSE LET data == ParseOracleText(o.text, ClassifyFallback)
         IN  IF data.t # "dict" THEN Raised
             ELSE LET cat == IF data.category.k = "absent" THEN "Other"
                             ELSE IF data.category.k = "str" THEN data.category.v
                             ELSE "<not a str>"
                  IN  Hit(cat, Confidence(data.confidence), "ai")

\* o is what the oracle does on this call; amount only enters the prompt
ai_classify(sn, item_name, amount, o) ==
    IF o.http = "error" THEN Raised
    ELSE LET data == ParseOracleText(o.text, ClassifyFallback)
         IN  IF data.t # "dict" THEN Raised   \* data.get: AttributeError
             ELSE LET cat == IF data.category.k = "absent" THEN "Other"
                             ELSE IF data.category.k = "str" THEN data.category.v
                             ELSE "<not a str>"
                  IN  Hit(IF cat \in AllowedSet THEN cat ELSE "Other",
                          Confidence(data.confidence), "ai")

\* a classify_category that asks the oracle first and the rules after it
classify_category_oracle_first(sn, item_name, amount, o) ==
    LET hit == rule_classify(sn, item_name)
        ai == ai_classify(sn, item_name, amount, o)
    IN  IF ai.status = "return" \/ hit.status # "return" THEN ai
        ELSE hit

\* lines 398-402
classify_category(sn, item_name, amount, o) ==
    LET hit == rule_classify(sn, item_name)
    IN  IF hit.status = "return" THEN hit
        ELSE ai_classify(sn, item_name, amount, o)

-----------------------------------------------------------------------------
(* handle_image: header resolution (lines 555-566) *)

\* lines 558-559: the logo brand is joined in front of the extracted name
WithBrandHint(logo, name) ==
    IF logo # <<>> /\ ~Contains(logo, name) THEN Strip(logo \o <<" ">> \o name)
    ELSE name

\* a resolution that asks the oracle for every receipt
NeedsHeaderOracleAlways(local_store, local_date) == TRUE

\* line 561: whether gemini_extract_header is called
NeedsHeaderOracle(local_store, local_date) == local_store = <<>> \/ local_date = <<>>

ResolveRaised(local_store, local_date, called) ==
    [status |-> "raise", store_name |-> <<>>, purchase_date |-> <<>>,
     local_store |-> local_store, local_date |-> local_date, called |-> called]

\* o is what the oracle does if it is called, now is today's ISO date
ResolveHeader(text, logo, o, now) ==
    LET local_store == WithBrandHint(logo, heuristic_extract_store_name(text))
        local_date == extract_purchase_date_local(text)
        header == gemini_extract_header(text, o, now)
        hdate == header.purchase_date
    IN  IF ~NeedsHeaderOracle(local_store, local_date)
        THEN [status |-> "return", store_name |-> local_store,
              purchase_date |-> local_date, local_store |-> local_store,
              local_date |-> local_date, called |-> FALSE]
        ELSE IF header.status = "raise"
             THEN ResolveRaised(local_store, local_date, TRUE)
        ELSE IF local_date = <<>> /\ FieldTruthy(hdate) /\ hdate.k # "str"
             THEN ResolveRaised(local_store, local_date, TRUE)  \* .strip: AttributeError
        ELSE [status |-> "return",
              store_name |-> IF local_store # <<>> THEN local_store
                             ELSE Strip(IF header.store_name # <<>> THEN header.store_name
                                        ELSE local_store),
              purchase_date |-> IF local_date # <<>> THEN local_date
                                ELSE Strip(IF FieldTruthy(hdate) THEN hdate.v ELSE now),
              local_store |-> local_store, local_date |-> local_date, called |-> TRUE]

-----------------------------------------------------------------------------
(* The environment: deliveries, the calendar, the oracle's answers *)

MaxDeliveries == 2

MaxDays == 1

\* datetime.now().strftime("%Y-%m-%d") on day t of the run
NowIso(t) == IsoDate(2025, 9, 28 + t)

LongLine == Rep("a", StoreNameMax)

(* The messages LINE can deliver.  A message id names one image, so a        *)
(* redelivery carries the same id and the same image: ocr is the text the    *)
(* OCR finds in it, logo the description of its best logo annotation (empty  *)
(* when it has none), csv the texts the item oracle may answer for it.       *)
Messages ==
    << [id |-> <<"m", "1">>,
        ocr |-> <<"K_RO", "K_~", "K_SO", "K_N", " ", "U+6885", "U+7530", "U+5E97", "LF", "2", "0", "2", "5", "/", "9", "/", "2", "8", "LF", "H_O", "H_NI", "H_GI", "H_RI", " ", "1", "2", "8">>,
        logo |-> <<"K_RO", "K_~", "K_SO", "K_N">>,
        csv |-> {<<"H_O", "H_NI", "H_GI", "H_RI", ",", " ", "1", "2", "8", "LF", "U+725B", "U+4E73", ",", "1", "9", "8">>}],
       [id |-> <<"m", "2">>,
        ocr |-> <<"H_MA", "H_RU", "H_YA", "H_MA", "U+5546", "U+5E97", "LF", "K_NO", "K_~", "K_TO", " ", "3", "0", "0", "LF", "H_O", "H_NI", "H_GI", "H_RI", " ", "1", "2", "8">>,
        logo |-> <<>>,
        csv |-> {<<"BT", "BT", "BT", "c", "s", "v", "LF", "U+5546", "U+54C1", ",", " ", "U+4FA1", "U+683C", "LF", "K_NO", "K_~", "K_TO", ",", " ", "N", "/", "A", "LF", "H_O", "H_NI", "H_GI", "H_RI", ",", " ", "1", "2", "8", "LF", "BT", "BT", "BT">>}],
       [id |-> <<"m", "3">>,
        ocr |-> <<" ">>,
        logo |-> <<"A", "c", "m", "e">>,
        csv |-> {<<>>}],
       [id |-> <<"m", "4">>,
        ocr |-> LongLine \o <<"LF", "2", "0", "2", "5", "U+5E74", " ", "9", "U+6708", " ", "2", "8", "U+65E5">>,
        logo |-> <<"A", "c", "m", "e">>,
        csv |-> {<<"U+5207", "U+7B26", ",", " ", "2", "0", "0">>}] >>

OracleOk(shape, doc) == [http |-> "ok", text |-> [shape |-> shape, doc |-> doc]]

OracleError == [http |-> "error", text |-> [shape |-> "plain", doc |-> Scalar("NoneType")]]

HeaderDoc(sname, pdate) == Doc("dict", NoCat, NoConf, sname, pdate)

Maruyama == <<"H_MA", "H_RU", "H_YA", "H_MA">>

\* answers to the header prompt: a good object, objects whose date is missing,
\* blank, no date or no string, an object inside prose, JSON that is no object,
\* text that is no JSON, a failed call
HeaderOracles ==
    { OracleOk("json", HeaderDoc(Field("str", Maruyama), Field("str", IsoDate(2025, 9, 27)))),
      OracleOk("json", HeaderDoc(Field("NoneType", <<>>), NoStr)),
      OracleOk("json", HeaderDoc(NoStr, Field("str", <<" ", " ">>))),
      OracleOk("json", HeaderDoc(NoStr, Field("str", <<"t", "o", "m", "o", "r", "r", "o", "w">>))),
      OracleOk("json", HeaderDoc(NoStr, Field("int", <<>>))),
      OracleOk("json", HeaderDoc(Field("int", <<>>), NoStr)),
      OracleOk("span", HeaderDoc(NoStr, Field("str", IsoDate(2025, 9, 27)))),
      OracleOk("badspan", Scalar("NoneType")),
      OracleOk("json", Scalar("list")),
      OracleOk("json", Scalar("NoneType")),
      OracleOk("plain", Scalar("NoneType")),
      OracleError }

ClassifyDoc(category, confidence) == Doc("dict", category, confidence, NoStr, NoStr)

\* the answers to the classification prompt that the deliveries of the model
\* get: a label of the set, a label outside it, JSON that is no object, a
\* failed call
LoopOracles ==
    { OracleOk("json", ClassifyDoc(Field("str", "Hobby"), Field("float", 90))),
      OracleOk("json", ClassifyDoc(Field("str", "Snacks"), Field("float", 40))),
      OracleOk("json", Scalar("list")),
      OracleError }

\* answers to the classification prompt
ClassifyOracles ==
    { OracleOk("json", ClassifyDoc(Field("str", "Hobby"), Field("float", 90))),
      OracleOk("json", ClassifyDoc(Field("str", "Snacks"), Field("float", 40))),
      OracleOk("json", ClassifyDoc(Field("list", ""), Field("str", 0))),
      OracleOk("json", ClassifyDoc(NoCat, Field("float", 250))),
      OracleOk("span", ClassifyDoc(Field("str", "Education"), NoConf)),
      OracleOk("badspan", Scalar("NoneType")),
      OracleOk("json", Scalar("list")),
      OracleOk("json", Scalar("int")),
      OracleOk("json", Scalar("NoneType")),
      OracleOk("plain", Scalar("NoneType")),
      OracleError }

-----------------------------------------------------------------------------
(* Notion: upsert_receipt_page and create_item_row *)

\* notion_query_by_receipt_id: the pages whose receipt id equals rid
QueryByReceiptId(pages, rid) == {p \in pages : p.receipt_id = rid}

\* results[0] of a query that found something: the page created first
FirstPage(found) == CHOOSE p \in found : \A q \in found : p.id <= q.id

ItemNameMax == 200

Fumei == <<"U+4E0D", "U+660E">>

\* the select value of the category property (line 270)
RowCategory(category) == IF category \in AllowedSet THEN category ELSE "Other"

\* the properties of the page create_item_row posts
ItemRow(name, price, pd, sn, category, confidence, source, page_id, rid) ==
    [product_name |-> Take(IF name # <<>> THEN name ELSE Fumei, ItemNameMax),
     price |-> price, purchase_date |-> pd, store_name |-> sn,
     category |-> RowCategory(category), confidence |-> confidence,
     source |-> source, receipt_id |-> rid, receipt |-> page_id]

\* a create that posts a row only when the database holds no equal one
CreatePageIfAbsent(rows, row) ==
    IF BagIn(row, rows) THEN rows ELSE rows (+) SetToBag({row})

\* lines 277-280: the POST of create_item_row adds the page to the database
CreatePage(rows, row) == rows (+) SetToBag({row})

-----------------------------------------------------------------------------
(* main and handle_image as a state machine *)

NoId == [prefix |-> <<>>, digest |-> <<>>]

NoTrace ==
    [header_called |-> FALSE, local_store |-> <<>>, local_date |-> <<>>,
     resolved |-> FALSE, classified |-> 0, oracle_calls |-> 0, attempts |-> 0,
     replied |-> "none", error_at |-> "none"]

NoCall == [fn |-> "none"]

NoEvent == [msg |-> 0, sig_ok |-> FALSE]

\* a main whose handler for Exception answers with an error
main_propagating(outcome) ==
    IF outcome = "InvalidSignatureError" THEN "Invalid signature 400"
    ELSE IF outcome = "Exception" THEN "Internal Server Error 500"
    ELSE "OK"

\* what main returns (lines 625-633) when handler.handle ends in outcome
main(outcome) ==
    IF outcome = "InvalidSignatureError" THEN "Invalid signature 400"
    ELSE IF outcome = "Exception" THEN "OK"
    ELSE "OK"

Init ==
    /\ call = NoCall
    /\ pc = "idle"
    /\ today = 0
    /\ event = NoEvent
    /\ ocr_text = <<>>
    /\ logo_brand = <<>>
    /\ store_name = <<>>
    /\ purchase_date = <<>>
    /\ receipt_id = NoId
    /\ receipt_page_id = 0
    /\ items = <<>>
    /\ idx = 0
    /\ created = 0
    /\ failed = 0
    /\ low_conf_count = 0
    /\ notion_receipts = {}
    /\ notion_items = EmptyBag
    /\ response = "none"
    /\ delivered = 0
    /\ trace = NoTrace

locals == <<ocr_text, logo_brand, store_name, purchase_date, receipt_id,
            receipt_page_id, items, idx, created, failed, low_conf_count>>

notion == <<notion_receipts, notion_items>>

\* an exception leaves handle_image at step and reaches main's handlers
Raise(step) ==
    /\ pc' = "done"
    /\ response' = main("Exception")
    /\ trace' = [trace EXCEPT !.error_at = step]

\* the calendar day changes between two deliveries
Tick ==
    /\ pc = "idle"
    /\ today < MaxDays
    /\ today' = today + 1
    /\ UNCHANGED <<call, pc, event, locals, notion, response, delivered, trace>>

\* main is called with a delivery; handler.handle checks the signature first
Receive ==
    /\ pc = "idle"
    /\ delivered < MaxDeliveries
    /\ \E m \in 1..Len(Messages), sig \in BOOLEAN :
         /\ event' = [msg |-> m, sig_ok |-> sig]
         /\ pc' = IF sig THEN "fetch" ELSE "done"
         /\ response' = IF sig THEN "none" ELSE main("InvalidSignatureError")
    /\ delivered' = delivered + 1
    /\ trace' = NoTrace
    /\ UNCHANGED <<call, today, locals, notion>>

\* lines 546-548: line_bot_api.get_message_content
FetchImage ==
    /\ pc = "fetch"
    /\ \E ok \in BOOLEAN :
         IF ok THEN pc' = "ocr" /\ UNCHANGED <<response, trace>>
         ELSE Raise("fetch")
    /\ UNCHANGED <<call, today, event, locals, notion, delivered>>

\* lines 551-553: ocr_bytes_to_text raises on an OCR error; detect_logo_brand
\* swallows its failures and gives "" then
Ocr ==
    /\ pc = "ocr"
    /\ \E ok \in BOOLEAN, logo_ok \in BOOLEAN :
         IF ok
         THEN /\ ocr_text' = Strip(Messages[event.msg].ocr)
              /\ logo_brand' = IF logo_ok THEN normalize_store_name(Messages[event.msg].logo)
                               ELSE <<>>
              /\ pc' = "header"
              /\ UNCHANGED <<response, trace>>
         ELSE /\ Raise("ocr")
              /\ UNCHANGED <<ocr_text, logo_brand>>
    /\ UNCHANGED <<call, today, event, store_name, purchase_date, receipt_id,
                   receipt_page_id, items, idx, created, failed, low_conf_count,
                   notion, delivered>>

\* lines 556-569: header resolution and the receipt identity
Header ==
    /\ pc = "header"
    /\ \E o \in HeaderOracles :
       \E h \in {ResolveHeader(ocr_text, logo_brand, o, NowIso(today))} :
         LET seen == [trace EXCEPT !.header_called = h.called,
                                   !.local_store = h.local_store,
                                   !.local_date = h.local_date]
         IN  IF h.status = "raise"
             THEN /\ pc' = "done"
                  /\ response' = main("Exception")
                  /\ trace' = [seen EXCEPT !.error_at = "header"]
                  /\ UNCHANGED <<store_name, purchase_date, receipt_id>>
             ELSE /\ store_name' = h.store_name
                  /\ purchase_date' = h.purchase_date
                  /\ receipt_id' = build_receipt_id(h.purchase_date, h.store_name, ocr_text,
                                                    Messages[event.msg].id)
                  /\ pc' = "upsert"
                  /\ trace' = [seen EXCEPT !.resolved = TRUE]
                  /\ UNCHANGED response
    /\ UNCHANGED <<call, today, event, ocr_text, logo_brand, receipt_page_id, items, idx,
                   created, failed, low_conf_count, notion, delivered>>

\* line 570, upsert_receipt_page: the query, then the create when nothing is found
Upsert ==
    /\ pc = "upsert"
    /\ LET exists == QueryByReceiptId(notion_receipts, receipt_id)
       IN  \E outcome \in {"ok", "query_error", "create_error"} :
             IF outcome = "query_error" \/ (outcome = "create_error" /\ exists = {})
             THEN Raise("upsert") /\ UNCHANGED <<receipt_page_id, notion_receipts>>
             ELSE /\ outcome = "ok"
                  /\ IF exists # {}
                     THEN receipt_page_id' = FirstPage(exists).id /\ UNCHANGED notion_receipts
                     ELSE /\ receipt_page_id' = Cardinality(notion_receipts) + 1
                          /\ notion_receipts' =
                               notion_receipts \cup
                                 {[id |-> Cardinality(notion_receipts) + 1,
                                   receipt_id |-> receipt_id,
                                   purchase_date |-> purchase_date,
                                   store_name |-> store_name,
                                   msg |-> event.msg]}
                  /\ pc' = "items"
                  /\ UNCHANGED <<response, trace>>
    /\ UNCHANGED <<call, today, event, ocr_text, logo_brand, store_name, purchase_date,
                   receipt_id, items, idx, created, failed, low_conf_count,
                   notion_items, delivered>>

\* lines 573-581: the item oracle, the parse, the reply when nothing was parsed
ExtractItems ==
    /\ pc = "items"
    /\ \/ /\ Raise("items")
          /\ UNCHANGED <<items, idx>>
       \/ \E c \in Messages[event.msg].csv :
          \E rows \in {parse_items_csv(gemini_extract_items_csv(c))} :
                /\ items' = rows
                /\ idx' = IF rows = <<>> THEN 0 ELSE 1
                /\ pc' = IF rows = <<>> THEN "reply_empty" ELSE "loop"
                /\ UNCHANGED <<response, trace>>
    /\ UNCHANGED <<call, today, event, ocr_text, logo_brand, store_name, purchase_date,
                   receipt_id, receipt_page_id, created, failed, low_conf_count,
                   notion, delivered>>

\* lines 586-613: one iteration of the loop over the parsed items
ItemStep ==
    /\ pc = "loop"
    /\ \E o \in LoopOracles, outcome \in {"ok", "no_id", "error"} :
       \E c \in {classify_category(store_name, items[idx][1], PriceOf(items[idx][2]), o)} :
         LET name == items[idx][1]
             price == PriceOf(items[idx][2])
             calls == IF c.oracle THEN 1 ELSE 0
         IN  IF c.status = "raise"
             THEN /\ pc' = "done"
                  /\ response' = main("Exception")
                  /\ trace' = [trace EXCEPT !.error_at = "classify",
                                            !.oracle_calls = @ + calls]
                  /\ UNCHANGED <<idx, created, failed, low_conf_count, notion_items>>
             ELSE /\ low_conf_count' = IF c.conf < 60 THEN low_conf_count + 1
                                       ELSE low_conf_count
                  /\ notion_items' =
                       IF outcome = "error" THEN notion_items
                       ELSE CreatePage(notion_items,
                                       ItemRow(name, price, purchase_date, store_name,
                                               c.cat, c.conf, c.source, receipt_page_id,
                                               receipt_id))
                  /\ created' = IF outcome = "ok" THEN created + 1 ELSE created
                  /\ failed' = IF outcome = "ok" THEN failed ELSE failed + 1
                  /\ idx' = idx + 1
                  /\ pc' = IF idx = Len(items) THEN "reply" ELSE "loop"
                  /\ trace' = [trace EXCEPT !.classified = @ + 1,
                                            !.oracle_calls = @ + calls,
                                            !.attempts = @ + 1]
                  /\ UNCHANGED response
    /\ UNCHANGED <<call, today, event, ocr_text, logo_brand, store_name, purchase_date,
                   receipt_id, receipt_page_id, items, notion_receipts, delivered>>

\* lines 578-581 and 616-619: line_bot_api.reply_message, then handle_image returns
Reply ==
    /\ pc \in {"reply", "reply_empty"}
    /\ \E ok \in BOOLEAN :
         IF ok
         THEN /\ pc' = "done"
              /\ response' = main("returned")
              /\ trace' = [trace EXCEPT !.replied = IF pc = "reply" THEN "summary"
                                                     ELSE "no_items"]
         ELSE Raise("reply")
    /\ UNCHANGED <<call, today, event, locals, notion, delivered>>

\* main has returned; the next delivery starts from fresh locals
Return ==
    /\ pc = "done"
    /\ pc' = "idle"
    /\ event' = NoEvent
    /\ ocr_text' = <<>>
    /\ logo_brand' = <<>>
    /\ store_name' = <<>>
    /\ purchase_date' = <<>>
    /\ receipt_id' = NoId
    /\ receipt_page_id' = 0
    /\ items' = <<>>
    /\ idx' = 0
    /\ created' = 0
    /\ failed' = 0
    /\ low_conf_count' = 0
    /\ response' = "none"
    /\ trace' = NoTrace
    /\ UNCHANGED <<call, today, notion, delivered>>

Next ==
    \/ Tick
    \/ Receive
    \/ FetchImage
    \/ Ocr
    \/ Header
    \/ Upsert
    \/ ExtractItems
    \/ ItemStep
    \/ Reply
    \/ Return

Spec == Init /\ [][Next]_vars

-----------------------------------------------------------------------------
(* Properties of the deliveries *)

\* an ISO calendar date YYYY-MM-DD
IsIsoDate(s) ==
    /\ Len(s) = 10
    /\ s[5] = "-" /\ s[8] = "-"
    /\ \A i \in {1, 2, 3, 4, 6, 7, 9, 10} : \E n \in 1..10 : s[i] = AsciiDigits[n]
    /\ ValidDate(ToInt(SubSeq(s, 1, 4)), ToInt(SubSeq(s, 6, 7)), ToInt(SubSeq(s, 9, 10)))

\* C1: after any sequence of deliveries Notion holds at most one receipt
\* page per delivered (raw text, message id) pair: a redelivery computes the
\* same receipt id, finds the page of the first run and creates no second one.
C1_OneHeaderPerEvent ==
    \A p \in notion_receipts, q \in notion_receipts : p.msg = q.msg => p = q

\* C2: whenever header resolution completes, purchase_date is non-empty and
\* a valid ISO calendar date, whatever text the oracle answered.
C2_DateAlwaysValid ==
    trace.resolved => purchase_date # <<>> /\ IsIsoDate(purchase_date)

\* C3: gemini_extract_header is called only if the local store name or the
\* local date is empty; when both are found locally no oracle call is made,
\* resolution completes whatever the oracle would have done, and the header
\* is exactly the local values.
C3_OracleOnlyWhenLocalFails ==
    /\ trace.header_called => trace.local_store = <<>> \/ trace.local_date = <<>>
    /\ trace.error_at = "header" => trace.local_store = <<>> \/ trace.local_date = <<>>
    /\ trace.resolved /\ trace.local_store # <<>> /\ trace.local_date # <<>>
         => /\ ~trace.header_called
            /\ store_name = trace.local_store
            /\ purchase_date = trace.local_date

\* C3 happens: a receipt resolved from the local heuristics alone
C3_Witness ==
    /\ trace.resolved
    /\ ~trace.header_called
    /\ trace.local_store # <<>>
    /\ purchase_date = IsoDate(2025, 9, 28)

\* C8: a delivery with a valid signature is answered "OK" whichever step of
\* handle_image fails, and only an invalid signature gets the 400 response.
C8_AlwaysAcknowledged ==
    pc = "done" =>
      /\ event.sig_ok => response = "OK"
      /\ ~event.sig_ok => response = "Invalid signature 400"

\* C8 happens: handle_image failed in the item loop and main answered
C8_Witness ==
    /\ pc = "done"
    /\ event.sig_ok
    /\ trace.error_at = "classify"
    /\ response = "OK"

\* C9: a failure on one parsed item keeps no later item from its creation
\* attempt: once the loop was entered every parsed item gets one attempt, and
\* the summary reply reports created + failed = number of parsed items.
C9_EveryItemAttempted ==
    /\ pc = "done" /\ items # <<>> => trace.attempts = Len(items)
    /\ trace.replied = "summary" => created + failed = Len(items)

\* C10: the resolved store name is normalized and at most 50 characters
\* long, a brand hint that is no substring of the extracted name having been
\* joined in before the normalization.
C10_StoreNameNormalized ==
    trace.resolved =>
      /\ Len(store_name) <= StoreNameMax
      /\ normalize_store_name(store_name) = store_name

-----------------------------------------------------------------------------
(* Properties of the item records *)

\* C12: item creation is unconditional: an upsert that finds the receipt
\* page creates no second one, while every item counted as created adds one
\* more record to the database even when it already holds an equal record, so
\* a redelivery leaves two item records of one receipt id and one parsed item.
C12_ItemsCreatedAgain ==
    [][/\ QueryByReceiptId(notion_receipts, receipt_id) # {}
            => notion_receipts' = notion_receipts
       /\ created' = created + 1
            => \E r \in BagToSet(notion_items') :
                 /\ r.receipt_id = receipt_id
                 /\ r.product_name = items[idx][1]
                 /\ CopiesIn(r, notion_items') = CopiesIn(r, notion_items) + 1]_vars

\* C12 happens: after a redelivery one receipt page and two equal item
\* records of its receipt id
C12_Witness ==
    /\ delivered = 2
    /\ trace.replied = "summary"
    /\ created = Len(items)
    /\ Cardinality(QueryByReceiptId(notion_receipts, receipt_id)) = 1
    /\ \E r \in BagToSet(notion_items) :
         /\ r.receipt_id = receipt_id
         /\ r.receipt = receipt_page_id
         /\ CopiesIn(r, notion_items) = 2

-----------------------------------------------------------------------------
(* The pure functions called on their own *)

IdDates == {IsoDate(2025, 9, 28), IsoDate(2025, 9, 29)}

IdStores == {None, <<>>, <<"s">>, <<" ", "s">>, <<"J", "R">>}

IdTexts ==
    {None, <<>>, <<"a", "b">>, Rep("a", TextDigestMax) \o <<"x">>,
     Rep("a", TextDigestMax) \o <<"y">>, Rep("a", TextDigestMax - 1) \o <<"x">>}

IdMessageIds == {None, <<>>, <<"m", "1">>, <<"m", "2">>}

\* the values argument k of build_receipt_id is drawn from
IdDomain(k) ==
    CASE k = 1 -> IdDates [] k = 2 -> IdStores [] k = 3 -> IdTexts [] k = 4 -> IdMessageIds

IdOf(args) == build_receipt_id(args[1], args[2], args[3], args[4])

\* build_receipt_id is called
CallBuildReceiptId ==
    /\ call.fn = "none"
    /\ \E pd \in IdDates, sn \in IdStores, et \in IdTexts, mid \in IdMessageIds :
         call' = [fn |-> "build_receipt_id", changed |-> 0,
                  args |-> <<pd, sn, et, mid>>, id |-> IdOf(<<pd, sn, et, mid>>),
                  args2 |-> <<pd, sn, et, mid>>, id2 |-> IdOf(<<pd, sn, et, mid>>)]
    /\ UNCHANGED <<pc, today, event, locals, notion, response, delivered, trace>>

\* build_receipt_id is called again with argument k changed and the others kept
CallBuildReceiptIdChanged ==
    /\ call.fn = "build_receipt_id"
    /\ call.changed = 0
    /\ \E k \in 1..4 : \E v \in IdDomain(k) \ {call.args[k]} :
         call' = [call EXCEPT !.changed = k,
                              !.args2 = [call.args EXCEPT ![k] = v],
                              !.id2 = IdOf([call.args EXCEPT ![k] = v])]
    /\ UNCHANGED <<pc, today, event, locals, notion, response, delivered, trace>>

ClsStores ==
    { <<>>,
      <<"K_RO", "K_~", "K_SO", "K_N">>,
      <<"K_RO", "K_~", "K_SO", "K_N", " ", "J", "R", "U+5927", "U+962A", "U+99C5", "U+5E97">>,
      <<"J", "R">>,
      <<" ", "K_PE", "K_SMALL_TU", "K_TO">>,
      <<"K_SU", "K_GI", "U+85AC", "U+5C40", " ", "U+672C", "U+5E97">>,
      <<"H_MA", "H_RU", "H_YA", "H_MA", "U+5546", "U+5E97">>,
      <<"K_U", "K_SMALL_E", "K_RU", "K_SI", "K_A">>,
      <<"K_HU", "K_RE", "K_SMALL_TU", "K_SI", "K_SMALL_YU">>,
      <<"K_ME", "K_TO", "K_RO">>,
      <<"K_BE", "K_~", "K_KA", "K_RI", "K_~">> }

ClsItems ==
    { <<"K_NO", "K_~", "K_TO">>,
      <<"H_O", "H_NI", "H_GI", "H_RI">>,
      <<"U+5207", "U+7B26">>,
      <<"N", "E", "T", "F", "L", "I", "X">>,
      <<"U+6D17", "U+5264">>,
      <<"U+85AC">>,
      <<"U+72AC">> }

ClsAmounts == {NoPrice, 128}

\* classify_category is called
CallClassifyCategory ==
    /\ call.fn = "none"
    /\ \E sn \in ClsStores, item \in ClsItems, amount \in ClsAmounts, o \in ClassifyOracles :
         call' = [fn |-> "classify_category", store |-> sn, item |-> item,
                  amount |-> amount, o |-> o,
                  parsed |-> ParseOracleText(o.text, ClassifyFallback),
                  result |-> classify_category(sn, item, amount, o)]
    /\ UNCHANGED <<pc, today, event, locals, notion, response, delivered, trace>>

\* the labels create_item_row may be handed
RowLabels == AllowedSet \cup {"Snacks", "<not a str>", ""}

\* create_item_row is called: the page it posts
CallCreateItemRow ==
    /\ call.fn = "none"
    /\ \E category \in RowLabels, name \in ClsItems \cup {<<>>} :
         call' = [fn |-> "create_item_row", category |-> category,
                  row |-> ItemRow(name, NoPrice, IsoDate(2025, 9, 28), <<>>, category,
                                  50, "ai", 1, NoId)]
    /\ UNCHANGED <<pc, today, event, locals, notion, response, delivered, trace>>

HeaderTexts == {Messages[m].ocr : m \in 1..Len(Messages)}

\* gemini_extract_header is called
CallExtractHeader ==
    /\ call.fn = "none"
    /\ \E text \in HeaderTexts, o \in HeaderOracles, t \in 0..MaxDays :
         call' = [fn |-> "gemini_extract_header", text |-> text, o |-> o,
                  now |-> NowIso(t),
                  parsed |-> ParseOracleText(o.text, HeaderFallback),
                  result |-> gemini_extract_header(text, o, NowIso(t))]
    /\ UNCHANGED <<pc, today, event, locals, notion, response, delivered, trace>>

NoEraYear == 0 - 1

(* Pieces of receipt text: text is matched by the pattern of tier alone (by  *)
(* none when tier is 0), iso is the date its numbers give, empty when they   *)
(* are no calendar date, era_year the number written after the era.          *)
DateFragments ==
    << [text |-> <<"2", "0", "2", "5", "/", "9", "/", "2", "8">>,
        tier |-> 1, iso |-> <<"2", "0", "2", "5", "-", "0", "9", "-", "2", "8">>, era_year |-> NoEraYear],
       [text |-> <<"2", "0", "2", "5", ".", "1", "3", ".", "2", "8">>,
        tier |-> 1, iso |-> <<>>, era_year |-> NoEraYear],
       [text |-> <<"2", "0", "2", "4", "U+5E74", " ", "2", "U+6708", " ", "2", "9", "U+65E5">>,
        tier |-> 2, iso |-> <<"2", "0", "2", "4", "-", "0", "2", "-", "2", "9">>, era_year |-> NoEraYear],
       [text |-> <<"2", "0", "2", "3", "U+5E74", "2", "U+6708", "3", "0", "U+65E5">>,
        tier |-> 2, iso |-> <<>>, era_year |-> NoEraYear],
       [text |-> <<"U+4EE4", "U+548C", "FW7", "U+5E74", "FW9", "U+6708", "FW2", "FW7", "U+65E5">>,
        tier |-> 3, iso |-> <<"2", "0", "2", "5", "-", "0", "9", "-", "2", "7">>, era_year |-> 7],
       [text |-> <<"U+4EE4", "U+548C", "0", "U+5E74", "9", "U+6708", "2", "6", "U+65E5">>,
        tier |-> 3, iso |-> <<"2", "0", "1", "8", "-", "0", "9", "-", "2", "6">>, era_year |-> 0],
       [text |-> <<"U+5E73", "U+6210", "3", "1", "U+5E74", "1", "3", "U+6708", "1", "U+65E5">>,
        tier |-> 3, iso |-> <<>>, era_year |-> 31],
       [text |-> <<"R", "7", ".", "9", ".", "2", "5">>,
        tier |-> 4, iso |-> <<"2", "0", "2", "5", "-", "0", "9", "-", "2", "5">>, era_year |-> 7],
       [text |-> <<"H", "3", "1", "/", "2", "/", "3", "0">>,
        tier |-> 4, iso |-> <<>>, era_year |-> 31],
       [text |-> <<"S", " ", "6", "4", "U+5E74", "1", "U+6708", "7", "U+65E5">>,
        tier |-> 5, iso |-> <<"1", "9", "8", "9", "-", "0", "1", "-", "0", "7">>, era_year |-> 64],
       [text |-> <<"r", "7", "U+5E74", "0", "U+6708", "1", "U+65E5">>,
        tier |-> 5, iso |-> <<>>, era_year |-> 7],
       [text |-> <<"a", "b", "c">>,
        tier |-> 0, iso |-> <<>>, era_year |-> NoEraYear] >>

MaxFragments == 2

RECURSIVE JoinLines(_)
JoinLines(frs) ==
    IF Len(frs) = 1 THEN DateFragments[frs[1]].text
    ELSE DateFragments[frs[1]].text \o <<"LF">> \o JoinLines(Tail(frs))

\* extract_purchase_date_local is called on the lines frs
CallExtractDate ==
    /\ call.fn = "none"
    /\ \E n \in 1..MaxFragments : \E frs \in [1..n -> 1..Len(DateFragments)] :
         call' = [fn |-> "extract_purchase_date_local", frs |-> frs,
                  text |-> JoinLines(frs),
                  result |-> extract_purchase_date_local(JoinLines(frs))]
    /\ UNCHANGED <<pc, today, event, locals, notion, response, delivered, trace>>

NextFn ==
    \/ CallBuildReceiptId
    \/ CallBuildReceiptIdChanged
    \/ CallClassifyCategory
    \/ CallCreateItemRow
    \/ CallExtractHeader
    \/ CallExtractDate

SpecFn == Init /\ [][NextFn]_vars

-----------------------------------------------------------------------------
(* Properties of the pure functions *)

\* the entries of MERCHANT_MAP whose key the store name contains
KeysIn(sn) == {k \in 1..Len(MERCHANT_MAP) : Contains(MERCHANT_MAP[k].key, sn)}

\* C4 as stated: for every merchant key the store name contains,
\* classify_category returns that entry's category with provenance "rule"
\* and confidence 1.0 and calls no oracle.
C4_EveryContainedKeyWins ==
    call.fn = "classify_category" =>
      \A k \in KeysIn(call.store) :
        /\ call.result.status = "return"
        /\ call.result.cat = MERCHANT_MAP[k].cat
        /\ call.result.conf = 100
        /\ call.result.source = "rule"
        /\ ~call.result.oracle

\* C4: for a store name containing merchant keys, classify_category
\* returns the category of the first such entry in the order of MERCHANT_MAP,
\* with provenance "rule" and confidence 1.0, and calls no oracle; the oracle
\* is called only when rule_classify returns no match.
C4_FirstContainedKeyWins ==
    call.fn = "classify_category" =>
      /\ KeysIn(call.store) # {} =>
           LET first == CHOOSE k \in KeysIn(call.store) :
                          \A j \in KeysIn(call.store) : k <= j
           IN  /\ call.result.status = "return"
               /\ call.result.cat = MERCHANT_MAP[first].cat
               /\ call.result.conf = 100
               /\ call.result.source = "rule"
               /\ ~call.result.oracle
      /\ call.result.oracle => rule_classify(call.store, call.item) = NoHit

\* C4 happens: a store name holding the keys of two entries of different
\* categories is classified by the rules
C4_Witness ==
    /\ call.fn = "classify_category"
    /\ \E j \in KeysIn(call.store), k \in KeysIn(call.store) :
         MERCHANT_MAP[j].cat # MERCHANT_MAP[k].cat
    /\ call.result.source = "rule"
    /\ call.result.conf = 100

\* the label an oracle answer carries
OracleLabel(data) == IF data.category.k = "str" THEN data.category.v ELSE "<not a str>"

\* C5: the category classify_category returns is a member of
\* ALLOWED_CATEGORIES whichever tier produced it, an oracle label outside the
\* set is replaced by Other, and the item page posted carries a category of
\* the set.
C5_CategoryInClosedSet ==
    /\ call.fn = "classify_category" /\ call.result.status = "return" =>
         /\ call.result.cat \in AllowedSet
         /\ call.result.oracle /\ OracleLabel(call.parsed) \notin AllowedSet
              => call.result.cat = "Other"
    /\ call.fn = "create_item_row" => call.row.category \in AllowedSet

\* C5 happens: the oracle answered a label outside the set and Other came back
C5_Witness ==
    /\ call.fn = "classify_category"
    /\ call.result.oracle
    /\ call.result.status = "return"
    /\ OracleLabel(call.parsed) = "Snacks"
    /\ call.result.cat = "Other"

\* C6: for every text the oracle returns with a successful HTTP response
\* the parse step of ai_classify and of gemini_extract_header yields the
\* decoded object or the fallback object, and the function does not raise.
C6_ParseNeverRaises ==
    /\ call.fn = "classify_category" /\ call.result.oracle /\ call.o.http = "ok" =>
         call.parsed.t = "dict" /\ call.result.status = "return"
    /\ call.fn = "gemini_extract_header" /\ call.o.http = "ok"
         /\ call.parsed.store_name.k \in {"absent", "NoneType", "str"} =>
         call.parsed.t = "dict" /\ call.result.status = "return"

\* what build_receipt_id reads of its arguments
IdInputs(args) ==
    <<args[1], OrEmpty(args[2]), Take(OrEmpty(args[3]), TextDigestMax), OrEmpty(args[4])>>

\* C7 as stated: changing any single one of the four inputs, the other three
\* held fixed, changes the identity.
C7_AnyChangeChangesIdentity ==
    call.fn = "build_receipt_id" /\ call.changed # 0 => call.id2 # call.id

\* C7: build_receipt_id is deterministic, and changing a single input
\* changes the identity exactly when it changes what is read of that input:
\* purchase_date, store_name or '', line_message_id or '' and the first 5000
\* characters of extracted_text or ''.
C7_IdentityFollowsInputsRead ==
    call.fn = "build_receipt_id" =>
      /\ call.args2 = call.args => call.id2 = call.id
      /\ call.changed # 0 =>
           (call.id2 # call.id <=> IdInputs(call.args2) # IdInputs(call.args))

\* C7 happens: two texts of 5000 characters or more that differ within the
\* first 5000 give two identities
C7_Witness ==
    /\ call.fn = "build_receipt_id"
    /\ call.changed = 3
    /\ Len(call.args[3]) >= TextDigestMax
    /\ Len(call.args2[3]) >= TextDigestMax
    /\ call.id2 # call.id

\* the first of the lines frs that the pattern of tier k matches (0: none)
FirstOfTier(frs, k) ==
    IF \E i \in 1..Len(frs) : DateFragments[frs[i]].tier = k
    THEN frs[CHOOSE i \in 1..Len(frs) :
               /\ DateFragments[frs[i]].tier = k
               /\ \A j \in 1..(i - 1) : DateFragments[frs[j]].tier # k]
    ELSE 0

\* the date expected of the lines frs when the tiers in rejected count as failed
ExpectedDate(frs, rejected) ==
    LET passing == {k \in 1..DateTiers :
                      /\ FirstOfTier(frs, k) # 0
                      /\ FirstOfTier(frs, k) \notin rejected
                      /\ DateFragments[FirstOfTier(frs, k)].iso # <<>>}
    IN  IF passing = {} THEN <<>>
        ELSE DateFragments[FirstOfTier(frs, CHOOSE k \in passing :
                                                \A j \in passing : k <= j)].iso

\* C11 as stated: the tiers are tried in their order, the date of the first
\* tier whose match is a calendar date is returned, a match that fails
\* validation (month 13, Feb 30, era year 0) is skipped with the later tiers
\* still tried, and the result is empty when no tier gives a date.
C11_EraYearZeroSkipped ==
    call.fn = "extract_purchase_date_local" =>
      call.result = ExpectedDate(call.frs, {f \in 1..Len(DateFragments) :
                                              DateFragments[f].era_year = 0})

\* C11: the tiers are tried in their order, the date of the first tier
\* whose match is a calendar date is returned, a match that is no calendar
\* date (month 13, month 0, Feb 30) is skipped with the later tiers still
\* tried, and the result is empty when no tier gives a date; an era year of 0
\* is no failure, it gives the year before the first year of the era.
C11_FirstValidTierWins ==
    call.fn = "extract_purchase_date_local" =>
      call.result = ExpectedDate(call.frs, {})

\* C11 happens: the match of an earlier tier failed validation and a later
\* tier gave the date
C11_Witness ==
    /\ call.fn = "extract_purchase_date_local"
    /\ \E k \in 1..DateTiers, j \in 1..DateTiers :
         /\ k < j
         /\ FirstOfTier(call.frs, k) # 0
         /\ DateFragments[FirstOfTier(call.frs, k)].iso = <<>>
         /\ FirstOfTier(call.frs, j) # 0
         /\ call.result = DateFragments[FirstOfTier(call.frs, j)].iso
         /\ call.result # <<>>

====
